---- MODULE Spec2Model ----
(***************************************************************************)
(* A model of the frame classifier of the typing-speed stress analyzer:    *)
(*   src/face_analyzer.py  class FaceAnalyzer (locator, metrics, scorer,   *)
(*                         selector, debug renderer)                        *)
(*   src/app.py            the Flask handlers and the inline classifier     *)
(*                         analyze_facial_stress                            *)
(*                                                                         *)
(* Numbers.  Intensities are integers.  Scores are held in tenths          *)
(* (2.0 is 20, 1.5 is 15, 1.0 is 10).  A floating comparison such as       *)
(* mouth > face_mean * 1.02 is decided on the cross-multiplied integers    *)
(* (mouth * 100 > face_mean * 102), which is the exact rational value of   *)
(* the comparison.                                                         *)
(***************************************************************************)
EXTENDS Integers, Sequences, FiniteSets, TLC

VARIABLES
    metrics,      \* scorer input: a FacialMetrics record
    scored,       \* whether `scores` and `face_mean` hold a selector input
    scores,       \* the ScoreMap handed to the selector
    face_mean,    \* the brightness handed to the selector
    emotion,      \* what FaceAnalyzer._select_emotion returned, or Pending
    appLabel,     \* what the inline scorer/selector of app.py chose, or Pending
    det,          \* locator input: the detector's answer to each configuration
    faLoc,        \* what FaceAnalyzer.detect_face did on `det`
    appLoc,       \* what the locator loop of analyze_facial_stress did on `det`
    face_cascade, \* FaceAnalyzer.face_cascade: "None", "Empty" or "Loaded"
    app_cascade,  \* the global face_cascade of app.py: "None" or "Loaded"
    call,         \* the last direct call of an entry point: function, frame, result
    stress_data,      \* app.py: session key -> list of samples
    last_debug_image, \* app.py: None or the last encoded debug image
    clock,            \* the number of time.time() readings taken so far
    lastReq,          \* the last request served
    response,         \* the answer to it
    typing_sessions,  \* app.py: session key -> finalized session record
    threads,          \* requests served by concurrent threads: thread -> its locals
    lists,            \* the list objects created at line 250/327, by creating thread
    bound,            \* session key -> the list object stress_data holds for it
    appended,         \* the samples in the order in which they were appended
    face_roi,         \* compute_metrics input: the face region, rows of pixels
    roi_metrics       \* what FaceAnalyzer.compute_metrics returned for it

selVars == <<metrics, scored, scores, face_mean, emotion, appLabel>>
locVars == <<det, faLoc, appLoc>>

coreVars == <<face_cascade, app_cascade, call>>

concVars == <<threads, lists, bound, appended>>

webVars ==
    <<stress_data, last_debug_image, clock, lastReq, response, typing_sessions,
      concVars>>

roiVars == <<face_roi, roi_metrics>>

vars == <<selVars, locVars, coreVars, webVars, roiVars>>

notSel == <<locVars, coreVars, webVars, roiVars>>
notLoc == <<selVars, coreVars, webVars, roiVars>>
notCore == <<selVars, locVars, roiVars>>

NoValue == "NoValue"
Pending == "Pending"

-----------------------------------------------------------------------------
(* EmotionLabel, in the order the enum declares its members: a dict built  *)
(* by iterating the enum enumerates its keys in this order.                *)
EnumOrder ==
    <<"Happy", "Sad", "Tired", "Angry", "Nervous", "Stressed",
      "Calm", "Chill", "Focused", "Normal", "Unknown">>

Labels == {EnumOrder[i] : i \in 1..Len(EnumOrder)}

SeqToSet(s) == {s[i] : i \in 1..Len(s)}

-----------------------------------------------------------------------------
(* FaceAnalyzer._compute_emotion_scores: eight rules applied in order to a *)
(* dict that starts at 0.0 for every label.  The first five rules assign,  *)
(* the last three add.                                                     *)

ZeroScores == [l \in Labels |-> 0]

\* FacialMetrics of a region whose pixels are all 0.
NoMetrics ==
    [eye_intensity |-> 0, mouth_intensity |-> 0,
     eye_variance |-> 0, mouth_variance |-> 0, face_mean |-> 0]

\* variance_threshold = face_mean * 0.2, kept as a multiple of 1/10:
\* x > variance_threshold  is  x * 10 > face_mean * 2.
AboveVarThreshold(x, m) == x * 10 > m.face_mean * 2

\* x < variance_threshold * k/10  is  x * 100 < face_mean * 2 * k.
BelowVarFraction(x, k, m) == x * 100 < m.face_mean * 2 * k

\* x > face_mean * p/100  and  x < face_mean * p/100.
AboveFace(x, p, m) == x * 100 > m.face_mean * p
BelowFace(x, p, m) == x * 100 < m.face_mean * p

RuleHappy(m, s) ==
    IF AboveFace(m.mouth_intensity, 102, m) /\ AboveVarThreshold(m.mouth_variance, m)
    THEN [s EXCEPT !["Happy"] = 20]
    ELSE s

RuleSadTired_SadOnly(m, s) ==
    IF BelowFace(m.mouth_intensity, 85, m) /\ BelowFace(m.eye_intensity, 90, m)
    THEN [s EXCEPT !["Sad"] = 15]
    ELSE s

RuleSadTired(m, s) ==
    IF BelowFace(m.mouth_intensity, 85, m) /\ BelowFace(m.eye_intensity, 90, m)
    THEN [s EXCEPT !["Sad"] = 15, !["Tired"] = 15]
    ELSE s

RuleNervous(m, s) ==
    IF AboveVarThreshold(m.eye_variance, m) /\ AboveVarThreshold(m.mouth_variance, m)
    THEN [s EXCEPT !["Nervous"] = 20]
    ELSE s

RuleStressedAngry(m, s) ==
    IF AboveVarThreshold(m.eye_variance, m) /\ BelowFace(m.mouth_intensity, 90, m)
    THEN [s EXCEPT !["Stressed"] = 20, !["Angry"] = 10]
    ELSE s

RuleCalm(m, s) ==
    IF BelowVarFraction(m.eye_variance, 4, m) /\ BelowVarFraction(m.mouth_variance, 4, m)
    THEN [s EXCEPT !["Calm"] = 15, !["Chill"] = 10, !["Focused"] = 10]
    ELSE s

RuleFocused_Assign(m, s) ==
    IF BelowVarFraction(m.eye_variance, 5, m) /\ BelowFace(m.mouth_intensity, 100, m)
    THEN [s EXCEPT !["Focused"] = 15]
    ELSE s

RuleFocused(m, s) ==
    IF BelowVarFraction(m.eye_variance, 5, m) /\ BelowFace(m.mouth_intensity, 100, m)
    THEN [s EXCEPT !["Focused"] = @ + 15]
    ELSE s

RuleTired(m, s) ==
    IF BelowFace(m.eye_intensity, 80, m) /\ BelowVarFraction(m.eye_variance, 6, m)
    THEN [s EXCEPT !["Tired"] = @ + 20]
    ELSE s

RuleAngry(m, s) ==
    IF BelowFace(m.mouth_intensity, 88, m) /\ AboveFace(m.eye_intensity, 105, m)
    THEN [s EXCEPT !["Angry"] = @ + 20]
    ELSE s

ComputeEmotionScores(m) ==
    RuleAngry(m, RuleTired(m, RuleFocused(m, RuleCalm(m,
        RuleStressedAngry(m, RuleNervous(m, RuleSadTired(m,
            RuleHappy(m, ZeroScores))))))))

-----------------------------------------------------------------------------
(* FaceAnalyzer._select_emotion                                            *)

SetMax(S) == CHOOSE x \in S : \A y \in S : y <= x

BestScore(sc) == SetMax({sc[l] : l \in DOMAIN sc})

NoRuleFired_Strict(best) == best < 0

\* `if best_score <= 0: return NORMAL`
NoRuleFired(best) == best <= 0

\* candidates = [k for k, v in scores.items() if v == best_score]
Candidates(sc) ==
    SelectSeq(EnumOrder, LAMBDA l : l \in DOMAIN sc /\ sc[l] = BestScore(sc))

Priority_HappyFirst ==
    <<"Happy", "Stressed", "Angry", "Nervous", "Tired", "Sad",
      "Focused", "Calm", "Chill">>

Priority ==
    <<"Stressed", "Angry", "Nervous", "Tired", "Sad",
      "Focused", "Calm", "Chill", "Happy">>

\* The first entry of `order` that is among the candidates, or NoValue.
FirstIn(order, cands) ==
    LET hits == SelectSeq(order, LAMBDA p : p \in SeqToSet(cands))
    IN  IF hits = <<>> THEN NoValue ELSE Head(hits)

\* `if face_mean < 50`
DarkFace(fm) == fm < 50

\* The body of the priority loop once `emotion in candidates` holds.
PickWithOverride(sc, fm, e) ==
    IF DarkFace(fm)
    THEN IF sc["Tired"] >= 10 THEN "Tired"
         ELSE IF sc["Sad"] >= 10 THEN "Sad"
         ELSE e
    ELSE e

SelectEmotion(sc, fm) ==
    IF NoRuleFired(BestScore(sc))
    THEN "Normal"
    ELSE LET e == FirstIn(Priority, Candidates(sc))
         IN  IF e # NoValue
             THEN PickWithOverride(sc, fm, e)
             ELSE "Normal"   \* the loop ends without a return

-----------------------------------------------------------------------------
(* The inline scorer and selector of analyze_facial_stress (app.py): a     *)
(* dict of nine lower-case keys, every rule adds, the override runs after  *)
(* the priority loop, and the chosen key is capitalized.                   *)

AppKeys ==
    <<"happy", "sad", "tired", "angry", "nervous", "stressed",
      "calm", "chill", "focused">>

AppPriority_HappyFirst ==
    <<"happy", "stressed", "angry", "nervous", "tired", "sad",
      "focused", "calm", "chill">>

AppPriority ==
    <<"stressed", "angry", "nervous", "tired", "sad",
      "focused", "calm", "chill", "happy">>

\* str.capitalize() on the nine keys.
Capitalize(k) ==
    CASE k = "happy"    -> "Happy"
      [] k = "sad"      -> "Sad"
      [] k = "tired"    -> "Tired"
      [] k = "angry"    -> "Angry"
      [] k = "nervous"  -> "Nervous"
      [] k = "stressed" -> "Stressed"
      [] k = "calm"     -> "Calm"
      [] k = "chill"    -> "Chill"
      [] k = "focused"  -> "Focused"

AppZeroScores == [k \in SeqToSet(AppKeys) |-> 0]

AppAdd(s, fires, k, d) == IF fires THEN [s EXCEPT ![k] = @ + d] ELSE s

AppScores(m) ==
    LET c1 == AboveFace(m.mouth_intensity, 102, m) /\ AboveVarThreshold(m.mouth_variance, m)
        c2 == BelowFace(m.mouth_intensity, 85, m) /\ BelowFace(m.eye_intensity, 90, m)
        c3 == AboveVarThreshold(m.eye_variance, m) /\ AboveVarThreshold(m.mouth_variance, m)
        c4 == AboveVarThreshold(m.eye_variance, m) /\ BelowFace(m.mouth_intensity, 90, m)
        c5 == BelowVarFraction(m.eye_variance, 4, m) /\ BelowVarFraction(m.mouth_variance, 4, m)
        c6 == BelowVarFraction(m.eye_variance, 5, m) /\ BelowFace(m.mouth_intensity, 100, m)
        c7 == BelowFace(m.eye_intensity, 80, m) /\ BelowVarFraction(m.eye_variance, 6, m)
        c8 == BelowFace(m.mouth_intensity, 88, m) /\ AboveFace(m.eye_intensity, 105, m)
        s1 == AppAdd(AppZeroScores, c1, "happy", 20)
        s2 == AppAdd(AppAdd(s1, c2, "sad", 15), c2, "tired", 15)
        s3 == AppAdd(s2, c3, "nervous", 20)
        s4 == AppAdd(AppAdd(s3, c4, "stressed", 20), c4, "angry", 10)
        s5 == AppAdd(AppAdd(AppAdd(s4, c5, "calm", 15), c5, "chill", 10), c5, "focused", 10)
        s6 == AppAdd(s5, c6, "focused", 15)
        s7 == AppAdd(s6, c7, "tired", 20)
    IN  AppAdd(s7, c8, "angry", 20)

\* candidates = [k for k, v in scores.items() if v == best_score and v > 0]
AppCandidates(sc) ==
    SelectSeq(AppKeys, LAMBDA k : sc[k] = BestScore(sc) /\ sc[k] > 0)

AppSelect(sc, fm) ==
    LET cands == AppCandidates(sc)
        p     == FirstIn(AppPriority, cands)
        best_label ==
            IF cands = <<>> THEN "Normal"
            ELSE IF p # NoValue THEN Capitalize(p)
            ELSE Capitalize(Head(cands))
    IN  IF fm < 50
        THEN IF sc["tired"] >= 10 THEN "Tired"
             ELSE IF sc["sad"] >= 10 THEN "Sad"
             ELSE best_label
        ELSE best_label

AppClassifyMetrics(m) == AppSelect(AppScores(m), m.face_mean)


-----------------------------------------------------------------------------
(* The face locator.  The cascade detector is opaque: its answer to one    *)
(* detectMultiScale call is either an exception or a list of rectangles    *)
(* <<x, y, w, h>> (empty when nothing is found).  A detection table gives  *)
(* the answer of the detector to each (scale, minNeighbors) configuration  *)
(* on one frame.  Scales are held in tenths (1.1 is 11).                   *)

Scales == <<11, 12, 13>>
MinNeighbors == <<3, 4, 5>>

NumConfigs == Len(Scales) * Len(MinNeighbors)

\* The configuration of the i-th iteration of `for scale: for min_neighbors:`.
ConfigAt(i) ==
    <<Scales[((i - 1) \div Len(MinNeighbors)) + 1],
      MinNeighbors[((i - 1) % Len(MinNeighbors)) + 1]>>

Configs == {ConfigAt(i) : i \in 1..NumConfigs}

NoRect == <<>>

Area(f) == f[3] * f[4]

\* max(faces, key=lambda f: f[2] * f[3]): the first element of largest area.
Largest(faces) ==
    faces[CHOOSE i \in 1..Len(faces) :
            /\ \A j \in 1..Len(faces) : Area(faces[j]) <= Area(faces[i])
            /\ \A j \in 1..(i - 1) : Area(faces[j]) < Area(faces[i])]

\* self.face_cascade after __init__ (initialize_cascade): None when loading
\* raised, the classifier object when it was constructed -- also when the
\* object is empty(), which initialize_cascade reports by returning False
\* without clearing the attribute.
InitializeCascade(load) ==
    CASE load = "raises" -> "None"
      [] load = "empty"  -> "Empty"
      [] load = "ok"     -> "Loaded"

\* An empty classifier raises on every detectMultiScale call.
Raising == [raises |-> TRUE, rects |-> <<>>]

DetectMultiScale(cascade, tbl, c) ==
    IF cascade = "Empty" THEN Raising ELSE tbl[c]

\* FaceAnalyzer.detect_face, the loop: the state after the first i iterations.
\* Every configuration is invoked; an exception skips to the next one, a
\* non-empty answer is appended to `faces`.
RECURSIVE FA_Scan(_, _, _)
FA_Scan(cascade, tbl, i) ==
    IF i = 0
    THEN [faces |-> <<>>, ran |-> <<>>]
    ELSE LET prev == FA_Scan(cascade, tbl, i - 1)
             r    == DetectMultiScale(cascade, tbl, ConfigAt(i))
         IN  [faces |-> IF ~r.raises /\ Len(r.rects) > 0
                        THEN prev.faces \o r.rects
                        ELSE prev.faces,
              ran   |-> Append(prev.ran, ConfigAt(i))]

\* FaceAnalyzer.detect_face: `rect` is NoRect for a None return; `ran` lists the
\* configurations detectMultiScale was invoked with, in order.
DetectFace(cascade, tbl) ==
    IF cascade = "None"
    THEN [rect |-> NoRect, ran |-> <<>>]
    ELSE LET st == FA_Scan(cascade, tbl, NumConfigs)
         IN  IF st.faces = <<>>
             THEN [rect |-> NoRect, ran |-> st.ran]
             ELSE [rect |-> Largest(st.faces), ran |-> st.ran]

\* analyze_facial_stress, lines 380-406: the loops break at the first
\* non-empty answer; an exception leaves the loops (it is caught by the
\* function's outer try).
RECURSIVE App_Scan(_, _)
App_Scan(tbl, i) ==
    IF i = 0
    THEN [faces |-> <<>>, ran |-> <<>>, raised |-> FALSE]
    ELSE LET prev == App_Scan(tbl, i - 1)
             r    == tbl[ConfigAt(i)]
         IN  IF prev.raised \/ Len(prev.faces) > 0
             THEN prev
             ELSE [faces  |-> IF r.raises THEN <<>> ELSE r.rects,
                   ran    |-> Append(prev.ran, ConfigAt(i)),
                   raised |-> r.raises]

\* outcome: "raised" (exception), "none" (len(faces) == 0) or "found".
AppLocate(tbl) ==
    LET st == App_Scan(tbl, NumConfigs)
    IN  IF st.raised
        THEN [outcome |-> "raised", rect |-> NoRect, ran |-> st.ran]
        ELSE IF Len(st.faces) = 0
        THEN [outcome |-> "none", rect |-> NoRect, ran |-> st.ran]
        ELSE [outcome |-> "found", rect |-> Largest(st.faces), ran |-> st.ran]


-----------------------------------------------------------------------------
(* The classification entry points.  A frame is described by what the      *)
(* library calls do on it:                                                 *)
(*   kind   "None", "Empty" (size 0) or "Image"                            *)
(*   fault  the call that raises on it: "none", "gray" (cvtColor or        *)
(*          equalizeHist) or "metrics" (the region statistics)             *)
(*   det    the detector's answer to each configuration                    *)
(*   m      the five statistics of the face region                         *)
(*   render what drawing and encoding do: "ok", "raises" or "encfail"      *)
(*          (imencode returns ret = False)                                 *)

None == <<>>

\* `not face_rect`: None is falsy; a detected face is a numpy row of four
\* integers, whose truth value raises ValueError.
NotFaceRect(rect) == IF rect = NoRect THEN "true" ELSE "raises"

\* FaceAnalyzer._create_debug_image: the encoded image (named by the label it
\* shows), or None when drawing raised (caught inside) or ret was False.
CreateDebugImage(render, label) ==
    IF render = "ok" THEN <<label>> ELSE None

\* FaceAnalyzer.compute_metrics on the region of the frame.
ComputeMetrics(frame) ==
    IF frame.fault = "metrics"
    THEN [exc |-> TRUE, m |-> NoMetrics]
    ELSE [exc |-> FALSE, m |-> frame.m]

\* analyze_stress, lines 131-144: what follows a falsy `not face_rect`.
FA_Classify(frame, ran) ==
    LET cm == ComputeMetrics(frame)
        e  == SelectEmotion(ComputeEmotionScores(cm.m), cm.m.face_mean)
    IN  IF cm.exc
        THEN [exc |-> TRUE, label |-> "Unknown", debug |-> None, ran |-> ran]
        ELSE [exc |-> FALSE, label |-> e,
              debug |-> CreateDebugImage(frame.render, e), ran |-> ran]

\* analyze_stress, the body of the try (lines 122-144).
FA_TryBody(cascade, frame) ==
    IF frame.fault = "gray"
    THEN [exc |-> TRUE, label |-> "Unknown", debug |-> None, ran |-> <<>>]
    ELSE LET d == DetectFace(cascade, frame.det)
             t == NotFaceRect(d.rect)
         IN  IF t = "raises"
             THEN [exc |-> TRUE, label |-> "Unknown", debug |-> None, ran |-> d.ran]
             ELSE IF t = "true"
             THEN [exc |-> FALSE, label |-> "Unknown", debug |-> None, ran |-> d.ran]
             ELSE FA_Classify(frame, d.ran)

\* `except Exception: return EmotionLabel.UNKNOWN, None`
CatchAll(body) ==
    [label |-> IF body.exc THEN "Unknown" ELSE body.label,
     debug |-> IF body.exc THEN None ELSE body.debug,
     ran |-> body.ran,
     escaped |-> FALSE]

\* FaceAnalyzer.analyze_stress: label, debug image, the configurations
\* detectMultiScale was invoked with, and whether an exception left the call.
AnalyzeStress(cascade, frame) ==
    IF frame.kind = "None" \/ frame.kind = "Empty" \/ cascade = "None"
    THEN [label |-> "Unknown", debug |-> None, ran |-> <<>>, escaped |-> FALSE]
    ELSE CatchAll(FA_TryBody(cascade, frame))

\* analyze_facial_stress, the body of the try (lines 369-524).
App_TryBody(frame) ==
    IF frame.kind = "None" \/ frame.kind = "Empty"
    THEN [exc |-> FALSE, label |-> "Invalid Frame", ran |-> <<>>]
    ELSE IF frame.fault = "gray"
    THEN [exc |-> TRUE, label |-> "Unknown", ran |-> <<>>]
    ELSE LET loc == AppLocate(frame.det)
         IN  IF loc.outcome = "raised"
             THEN [exc |-> TRUE, label |-> "Unknown", ran |-> loc.ran]
             ELSE IF loc.outcome = "none"
             THEN [exc |-> FALSE, label |-> "No Face Detected", ran |-> loc.ran]
             ELSE IF frame.fault = "metrics"
             THEN [exc |-> TRUE, label |-> "Unknown", ran |-> loc.ran]
             ELSE [exc |-> FALSE, label |-> AppClassifyMetrics(frame.m),
                   ran |-> loc.ran]

\* analyze_facial_stress: the label (a string), the configurations
\* detectMultiScale was invoked with, and whether an exception left the call.
AnalyzeFacialStress(cascade, frame) ==
    IF cascade = "None"
    THEN [label |-> "Unknown", ran |-> <<>>, escaped |-> FALSE]
    ELSE LET b == App_TryBody(frame)
         IN  [label |-> IF b.exc THEN "Unknown" ELSE b.label,
              ran |-> b.ran, escaped |-> FALSE]


-----------------------------------------------------------------------------
(* The web layer (app.py).  stress_data maps a session key to its list of  *)
(* samples; a request names its handler, what its payload is (`kind`), its *)
(* session id ("absent" when the request carries none) and, for a payload  *)
(* that decodes to an image, the frame.                                    *)

Resp(code, status, level, error) ==
    [code |-> code, status |-> status, stress_level |-> level, error |-> error]

\* data.get('session_id', 'default') / request.form.get('session_id', 'default')
SessionIdOf(req) == IF req.sid = "absent" THEN "default" ELSE req.sid

StoreSample_Replace(sd, key, level, now) ==
    LET sample == [timestamp |-> now, stress_level |-> level]
    IN  IF key \in DOMAIN sd THEN [sd EXCEPT ![key] = <<sample>>]
        ELSE sd @@ (key :> <<sample>>)

\* if session_id not in stress_data: stress_data[session_id] = []
\* stress_data[session_id].append({'timestamp': time.time(), 'stress_level': ...})
StoreSample(sd, key, level, now) ==
    LET sd1 == IF key \in DOMAIN sd THEN sd ELSE sd @@ (key :> <<>>)
    IN  [sd1 EXCEPT ![key] = Append(@, [timestamp |-> now, stress_level |-> level])]

HandlerDebug_Propagates(render, level, dbg) ==
    [exc |-> render # "ok", image |-> IF render = "ok" THEN <<level>> ELSE dbg]

\* The `try: ... except Exception as e: print(...)` around the debug image of
\* both handlers: last_debug_image is replaced only when imencode succeeded,
\* and no exception leaves the block.
HandlerDebug(render, level, dbg) ==
    [exc |-> FALSE, image |-> IF render = "ok" THEN <<level>> ELSE dbg]

Unchanged(sd, dbg, clk, resp) ==
    [response |-> resp, stress_data |-> sd, last_debug_image |-> dbg, clock |-> clk]

\* analyze_frame / analyze_frame_blob from the detector check on (lines
\* 210-259 and 292-336); `onExc` is the answer of the enclosing except.
ClassifyAndStore(cascade, sd, dbg, clk, req, onExc) ==
    IF cascade = "None"
    THEN Unchanged(sd, dbg, clk,
                   Resp(200, "warning", "Face Detection Unavailable", NoValue))
    ELSE LET level == AnalyzeFacialStress(cascade, req.frame).label
             d     == HandlerDebug(req.frame.render, level, dbg)
         IN  IF d.exc
             THEN Unchanged(sd, dbg, clk, onExc)
             ELSE [response |-> Resp(200, "success", level, NoValue),
                   stress_data |-> StoreSample(sd, SessionIdOf(req), level, clk + 1),
                   last_debug_image |-> d.image,
                   clock |-> clk + 1]

Error(code, msg) == Resp(code, "error", NoValue, msg)

\* analyze_frame
AnalyzeFrame(cascade, sd, dbg, clk, req) ==
    CASE req.kind = "NoJson" ->
            Unchanged(sd, dbg, clk, Error(400, "No image data provided"))
      [] req.kind = "Malformed" ->
            Unchanged(sd, dbg, clk, Error(500, "Failed to analyze frame"))
      [] req.kind = "BadPrefix" ->
            Unchanged(sd, dbg, clk, Error(400, "Invalid image format"))
      [] req.kind = "BadBase64" ->
            Unchanged(sd, dbg, clk, Error(400, "Invalid base64 encoding"))
      [] req.kind = "BadImage" ->
            Unchanged(sd, dbg, clk, Error(400, "Failed to process image"))
      [] req.kind = "ConvertFail" ->
            Unchanged(sd, dbg, clk, Error(400, "Failed to convert image format"))
      [] req.kind = "Frame" ->
            ClassifyAndStore(cascade, sd, dbg, clk, req,
                             Error(500, "Failed to analyze frame"))

\* analyze_frame_blob
AnalyzeFrameBlob(cascade, sd, dbg, clk, req) ==
    CASE req.kind = "NoFile" ->
            Unchanged(sd, dbg, clk, Error(400, "No image file provided"))
      [] req.kind = "ReadRaises" ->
            Unchanged(sd, dbg, clk, Error(500, "Failed to analyze frame blob"))
      [] req.kind = "EmptyFile" ->
            Unchanged(sd, dbg, clk, Error(400, "Empty file received"))
      [] req.kind = "BadImage" ->
            Unchanged(sd, dbg, clk, Error(400, "Invalid image data"))
      [] req.kind = "DecodeRaises" ->
            Unchanged(sd, dbg, clk, Error(400, "Image decode error"))
      [] req.kind = "Frame" ->
            ClassifyAndStore(cascade, sd, dbg, clk, req,
                             Error(400, "Image decode error"))

-----------------------------------------------------------------------------
(* The session summary and the results page (app.py).                      *)

\* stress_levels = [item['stress_level'] for item in stress_data[session_id]]
StressLevels(samples) == [i \in 1..Len(samples) |-> samples[i].stress_level]

\* stress_counts.get(level, 0)
CountOf(counts, level) == IF level \in DOMAIN counts.n THEN counts.n[level] ELSE 0

\* The dict stress_counts: `keys` is its iteration order (a key enters the
\* dict when it is first assigned), `n` its values.
EmptyCounts == [keys |-> <<>>, n |-> <<>>]

\* stress_counts[level] = stress_counts.get(level, 0) + 1
CountLevel(counts, level) ==
    IF level \in DOMAIN counts.n
    THEN [keys |-> counts.keys, n |-> [counts.n EXCEPT ![level] = @ + 1]]
    ELSE [keys |-> Append(counts.keys, level), n |-> counts.n @@ (level :> 1)]

\* for level in stress_levels: ...
RECURSIVE StressCounts(_)
StressCounts(levels) ==
    IF levels = <<>> THEN EmptyCounts
    ELSE CountLevel(StressCounts(SubSeq(levels, 1, Len(levels) - 1)),
                    levels[Len(levels)])

MaxKey_Last(counts) ==
    LET best == SetMax({counts.n[k] : k \in DOMAIN counts.n})
        last == SetMax({i \in 1..Len(counts.keys) : counts.n[counts.keys[i]] = best})
    IN  counts.keys[last]

\* max(stress_counts.keys(), key=lambda k: stress_counts[k]): the first key in
\* iteration order whose value no other key exceeds.
MaxKey(counts) ==
    LET best  == SetMax({counts.n[k] : k \in DOMAIN counts.n})
        first == CHOOSE i \in 1..Len(counts.keys) :
                    /\ counts.n[counts.keys[i]] = best
                    /\ \A j \in 1..(i - 1) : counts.n[counts.keys[j]] # best
    IN  counts.keys[first]

\* Lines 134-142, on the list the comprehension read.
MostCommon(levels) ==
    LET stress_counts == StressCounts(levels)
    IN  IF stress_counts.keys # <<>> THEN MaxKey(stress_counts) ELSE "Normal"

\* Lines 132-142.
AvgStressLevel(sd, session_id) ==
    IF session_id \in DOMAIN sd /\ sd[session_id] # <<>>
    THEN MostCommon(StressLevels(sd[session_id]))
    ELSE "Normal"

\* int(wpm * p) for p = 0.6, 0.8, 0.9 (tenths: 6, 8, 9)
IntOfProduct(wpm, tenths) == (wpm * tenths) \div 10

ProgressPoints(wpm) ==
    <<0, IntOfProduct(wpm, 6), IntOfProduct(wpm, 8), IntOfProduct(wpm, 9), wpm>>

SessionRecord(wpm, accuracy, typing_time, level, now) ==
    [wpm |-> wpm, accuracy |-> accuracy, typing_time |-> typing_time,
     stress_level |-> level, timestamp |-> now, progress |-> ProgressPoints(wpm)]

PutSession_KeepFirst(ts, session_id, rec) ==
    IF session_id \in DOMAIN ts THEN ts ELSE ts @@ (session_id :> rec)

\* typing_sessions[session_id] = {...}
PutSession(ts, session_id, rec) ==
    IF session_id \in DOMAIN ts THEN [ts EXCEPT ![session_id] = rec]
    ELSE ts @@ (session_id :> rec)

SubmitError(code, msg) ==
    [code |-> code, status |-> NoValue, stress_level |-> NoValue, error |-> msg]

SubmitOk(session_id, wpm, accuracy, level) ==
    [code |-> 200, status |-> NoValue, stress_level |-> level, error |-> NoValue,
     session_id |-> session_id, wpm |-> wpm, accuracy |-> accuracy]

\* data.get('session_id', str(int(time.time()))): `second` is the fallback,
\* the second in which the request is served, as a string.
SubmitSessionId(req, second) == IF req.sid = "absent" THEN second ELSE req.sid

\* submit_results.  The reading of time.time() at line 129 is `second`, the
\* one at line 158 advances the clock.  A wpm that is no number makes
\* int(wpm * 0.6) raise before anything is stored; Flask answers 500.
SubmitResults(sd, ts, clk, req, second) ==
    CASE req.kind = "NoData" ->
            [response |-> SubmitError(400, "No data provided"),
             typing_sessions |-> ts, clock |-> clk]
      [] req.kind = "BadWpm" ->
            [response |-> SubmitError(500, "Internal Server Error"),
             typing_sessions |-> ts, clock |-> clk]
      [] req.kind = "Data" ->
            LET session_id == SubmitSessionId(req, second)
                level == AvgStressLevel(sd, session_id)
            IN  [response |-> SubmitOk(session_id, req.wpm, req.accuracy, level),
                 typing_sessions |->
                     PutSession(ts, session_id,
                                SessionRecord(req.wpm, req.accuracy, req.typing_time,
                                              level, clk + 1)),
                 clock |-> clk + 1]

\* stress_counts = Counter(); for item in session_stress: ...; dict(stress_counts)
StressSummary(sd, session_id) ==
    IF session_id \in DOMAIN sd THEN StressCounts(StressLevels(sd[session_id])).n
    ELSE <<>>

\* results(session_id)
Results(sd, ts, session_id) ==
    IF session_id \notin DOMAIN ts
    THEN [code |-> 404, status |-> NoValue, stress_level |-> NoValue,
          error |-> "Session not found"]
    ELSE [code |-> 200, status |-> NoValue, stress_level |-> NoValue,
          error |-> NoValue, session |-> ts[session_id],
          stress_summary |-> StressSummary(sd, session_id)]

-----------------------------------------------------------------------------
(* FaceAnalyzer.compute_metrics on pixels.  A region is a sequence of rows *)
(* of equal length.  A statistic is held exactly: the mean as the fraction *)
(* num/den, the standard deviation by its square (the variance, whose      *)
(* numerator n * sum(x^2) - sum(x)^2 is 0 exactly when the deviation is);  *)
(* `nan` marks what numpy returns for an array without elements.           *)

Stat(num, den) == [nan |-> FALSE, num |-> num, den |-> den]
NaN == [nan |-> TRUE, num |-> 0, den |-> 1]
Zero == Stat(0, 1)

RECURSIVE SumOf(_)
SumOf(row) == IF row = <<>> THEN 0 ELSE row[1] + SumOf(Tail(row))

RowSquares(row) == [i \in 1..Len(row) |-> row[i] * row[i]]

RECURSIVE Total(_)
Total(region) == IF region = <<>> THEN 0 ELSE SumOf(region[1]) + Total(Tail(region))

RECURSIVE TotalSquares(_)
TotalSquares(region) ==
    IF region = <<>> THEN 0
    ELSE SumOf(RowSquares(region[1])) + TotalSquares(Tail(region))

\* region.size: a slice keeps the width, so a slice without rows has size 0
Size(region, width) == Len(region) * width

\* np.mean(region)
NpMean(region, width) ==
    IF Size(region, width) = 0 THEN NaN
    ELSE Stat(Total(region), Size(region, width))

\* np.std(region), squared
NpStd(region, width) ==
    IF Size(region, width) = 0 THEN NaN
    ELSE LET n == Size(region, width)
         IN  Stat(n * TotalSquares(region) - Total(region) * Total(region), n * n)

\* face_roi[y1:y2, :]
Slice(roi, y1, y2) == SubSeq(roi, y1 + 1, y2)

Min(a, b) == IF a <= b THEN a ELSE b

RowBounds_Inclusive(face_height) ==
    [eye_y1   |-> IntOfProduct(face_height, 2),
     eye_y2   |-> Min(IntOfProduct(face_height, 5) + 1, face_height),
     mouth_y1 |-> IntOfProduct(face_height, 6),
     mouth_y2 |-> Min(IntOfProduct(face_height, 8) + 1, face_height)]

\* Lines 97-100.
RowBounds(face_height) ==
    [eye_y1   |-> IntOfProduct(face_height, 2),
     eye_y2   |-> Min(IntOfProduct(face_height, 5), face_height),
     mouth_y1 |-> IntOfProduct(face_height, 6),
     mouth_y2 |-> Min(IntOfProduct(face_height, 8), face_height)]

IfAny_Unguarded(region, width, stat) == stat

\* float(stat) if region.size > 0 else 0
IfAny(region, width, stat) == IF Size(region, width) > 0 THEN stat ELSE Zero

compute_metrics(roi) ==
    LET face_height  == Len(roi)
        face_width   == Len(roi[1])
        b            == RowBounds(face_height)
        eye_region   == Slice(roi, b.eye_y1, b.eye_y2)
        mouth_region == Slice(roi, b.mouth_y1, b.mouth_y2)
    IN  [computed        |-> TRUE,
         eye_intensity   |-> IfAny(eye_region, face_width, NpMean(eye_region, face_width)),
         mouth_intensity |-> IfAny(mouth_region, face_width,
                                   NpMean(mouth_region, face_width)),
         eye_variance    |-> IfAny(eye_region, face_width, NpStd(eye_region, face_width)),
         mouth_variance  |-> IfAny(mouth_region, face_width,
                                   NpStd(mouth_region, face_width)),
         face_mean       |-> NpMean(roi, face_width)]

NoRoiMetrics ==
    [computed |-> FALSE, eye_intensity |-> Zero, mouth_intensity |-> Zero,
     eye_variance |-> Zero, mouth_variance |-> Zero, face_mean |-> Zero]

RoiIdle ==
    /\ face_roi = <<>>
    /\ roi_metrics = NoRoiMetrics

-----------------------------------------------------------------------------
(* Inputs of the pure functions.                                           *)

FaceMeans  == {0, 20, 100}
EyeMeans   == {0, 15, 16, 18, 21, 22, 79, 80, 90, 105, 106}
MouthMeans == {0, 16, 17, 18, 20, 21, 84, 85, 88, 90, 100, 102, 103}
EyeStds    == {0, 1, 2, 3, 4, 5, 8, 10, 12, 20, 21}
MouthStds  == {0, 1, 2, 4, 5, 8, 20, 21}

MetricInputs ==
    [eye_intensity : EyeMeans, mouth_intensity : MouthMeans,
     eye_variance : EyeStds, mouth_variance : MouthStds, face_mean : FaceMeans]

\* ScoreMaps handed to the selector directly: one entry per label, at most
\* MaxNonzero of them different from 0.
MaxNonzero == 3
ScoreVals == {5, 10, 20}
SelFaceMeans == {20, 49, 50, 100}

ScoreMapOf(S, f) == [l \in Labels |-> IF l \in S THEN f[l] ELSE 0]

\* Detection tables: at most MaxHits configurations answer with something
\* other than the empty list, each with an exception or with at most MaxCand
\* distinct rectangles (minSize is 30x30; the first two have equal areas).
MaxHits == 2
MaxCand == 2
Rects == {<<0, 0, 30, 40>>, <<4, 4, 40, 30>>, <<2, 2, 40, 40>>}

NothingFound == [raises |-> FALSE, rects |-> <<>>]

RectLists ==
    {q \in UNION {[1..n -> Rects] : n \in 1..MaxCand} :
        \A i, j \in 1..Len(q) : i # j => q[i] # q[j]}

Answers == {Raising} \cup {[raises |-> FALSE, rects |-> q] : q \in RectLists}

TableOf(H, a) == [c \in Configs |-> IF c \in H THEN a[c] ELSE NothingFound]

NoLoc == [rect |-> NoRect, ran |-> <<>>, outcome |-> Pending]

\* Frames handed to the entry points.
HappyMetrics ==
    [eye_intensity |-> 100, mouth_intensity |-> 105,
     eye_variance |-> 10, mouth_variance |-> 25, face_mean |-> 100]
DarkTiredMetrics ==
    [eye_intensity |-> 30, mouth_intensity |-> 30,
     eye_variance |-> 2, mouth_variance |-> 20, face_mean |-> 40]
FlatMetrics ==
    [eye_intensity |-> 100, mouth_intensity |-> 100,
     eye_variance |-> 15, mouth_variance |-> 15, face_mean |-> 100]

MetricSamples == {HappyMetrics, DarkTiredMetrics, FlatMetrics}

NoTable == [c \in Configs |-> NothingFound]
OneFace == [raises |-> FALSE, rects |-> << <<2, 2, 40, 40>> >>]

FrameTables ==
    {NoTable,
     [NoTable EXCEPT ![<<11, 3>>] = OneFace],
     [NoTable EXCEPT ![<<12, 4>>] = OneFace],
     [NoTable EXCEPT ![<<11, 3>>] = Raising, ![<<11, 4>>] = OneFace],
     [NoTable EXCEPT ![<<13, 5>>] = Raising]}

ImageFrames ==
    [kind : {"Image"}, fault : {"none", "gray", "metrics"}, det : FrameTables,
     m : MetricSamples, render : {"ok", "raises", "encfail"}]

BlankFrame(k) ==
    [kind |-> k, fault |-> "none", det |-> NoTable, m |-> NoMetrics, render |-> "ok"]

Frames == ImageFrames \cup {BlankFrame("None"), BlankFrame("Empty")}

NoCall ==
    [fn |-> "none", frame |-> BlankFrame("None"), label |-> Pending,
     debug |-> None, ran |-> <<>>, escaped |-> FALSE]

-----------------------------------------------------------------------------
(* Specification of the scorer and the selectors on drawn metrics.         *)

LocIdle ==
    /\ det = [c \in Configs |-> NothingFound]
    /\ faLoc = NoLoc
    /\ appLoc = NoLoc


\* Requests to the web layer.  At most MaxAppends samples are stored in all.
MaxAppends == 3

SessionIds == {"absent", "s1"}

WebFrames ==
    {f \in ImageFrames :
        /\ f.fault \in {"none", "gray"}
        /\ f.m = HappyMetrics
        /\ f.det \in {NoTable, [NoTable EXCEPT ![<<11, 3>>] = OneFace]}}

AnyFrame == BlankFrame("None")

JsonRequests ==
    [handler : {"analyze_frame"}, sid : SessionIds, kind : {"Frame"}, frame : WebFrames]
    \cup [handler : {"analyze_frame"}, sid : SessionIds,
          kind : {"NoJson", "Malformed", "BadPrefix", "BadBase64", "BadImage",
                  "ConvertFail"},
          frame : {AnyFrame}]

BlobRequests ==
    [handler : {"analyze_frame_blob"}, sid : SessionIds, kind : {"Frame"},
     frame : WebFrames]
    \cup [handler : {"analyze_frame_blob"}, sid : SessionIds,
          kind : {"NoFile", "ReadRaises", "EmptyFile", "BadImage", "DecodeRaises"},
          frame : {AnyFrame}]

NoRequest == [handler |-> "none", sid |-> "absent", kind |-> "none", frame |-> AnyFrame]
NoResponse == Resp(0, "none", NoValue, NoValue)

\* No request is being served by a thread of its own.
ConcIdle ==
    /\ threads = <<>>
    /\ lists = <<>>
    /\ bound = <<>>
    /\ appended = <<>>

WebIdle ==
    /\ stress_data = <<>>
    /\ last_debug_image = None
    /\ clock = 0
    /\ lastReq = NoRequest
    /\ response = NoResponse
    /\ typing_sessions = <<>>
    /\ ConcIdle

CoreIdle ==
    /\ face_cascade = "Loaded"
    /\ app_cascade = "Loaded"
    /\ call = NoCall

SelIdle ==
    /\ metrics = NoMetrics
    /\ scored = FALSE
    /\ scores = ZeroScores
    /\ face_mean = 0
    /\ emotion = Pending
    /\ appLabel = Pending

InitScore ==
    /\ RoiIdle
    /\ LocIdle
    /\ CoreIdle
    /\ WebIdle
    /\ metrics \in MetricInputs
    /\ scored = FALSE
    /\ scores = ZeroScores
    /\ face_mean = 0
    /\ emotion = Pending
    /\ appLabel = Pending

\* scores = self._compute_emotion_scores(metrics)
ComputeScores ==
    /\ ~scored
    /\ scored' = TRUE
    /\ scores' = ComputeEmotionScores(metrics)
    /\ face_mean' = metrics.face_mean
    /\ UNCHANGED <<metrics, emotion, appLabel, notSel>>

\* emotion = self._select_emotion(scores, metrics.face_mean)
Select ==
    /\ scored
    /\ emotion = Pending
    /\ emotion' = SelectEmotion(scores, face_mean)
    /\ UNCHANGED <<metrics, scored, scores, face_mean, appLabel, notSel>>

\* the inline scoring and selection of analyze_facial_stress on the same metrics
AppClassify ==
    /\ appLabel = Pending
    /\ appLabel' = AppClassifyMetrics(metrics)
    /\ UNCHANGED <<metrics, scored, scores, face_mean, emotion, notSel>>

NextScore == ComputeScores \/ Select \/ AppClassify

SpecScore == InitScore /\ [][NextScore]_vars

(* Specification of the selector on drawn ScoreMaps.                       *)

InitSelect ==
    /\ RoiIdle
    /\ LocIdle
    /\ CoreIdle
    /\ WebIdle
    /\ metrics = NoMetrics
    /\ scored = TRUE
    /\ \E S \in {T \in SUBSET Labels : Cardinality(T) <= MaxNonzero} :
         \E f \in [S -> ScoreVals] : scores = ScoreMapOf(S, f)
    /\ face_mean \in SelFaceMeans
    /\ emotion = Pending
    /\ appLabel = Pending

NextSelect == Select

SpecSelect == InitSelect /\ [][NextSelect]_vars


(* Specification of the two locators on drawn detection tables.            *)

InitLocate ==
    /\ RoiIdle
    /\ SelIdle
    /\ CoreIdle
    /\ WebIdle
    /\ \E H \in {T \in SUBSET Configs : Cardinality(T) <= MaxHits} :
         \E a \in [H -> Answers] : det = TableOf(H, a)
    /\ faLoc = NoLoc
    /\ appLoc = NoLoc

\* face_rect = self.detect_face(gray) on a loaded classifier
FA_DetectFace ==
    /\ faLoc.outcome = Pending
    /\ faLoc' = LET r == DetectFace("Loaded", det)
                IN  [rect |-> r.rect, ran |-> r.ran,
                     outcome |-> IF r.rect = NoRect THEN "none" ELSE "found"]
    /\ UNCHANGED <<det, appLoc, notLoc>>

\* the locator loop of analyze_facial_stress
App_Locate ==
    /\ appLoc.outcome = Pending
    /\ appLoc' = AppLocate(det)
    /\ UNCHANGED <<det, faLoc, notLoc>>

NextLocate == FA_DetectFace \/ App_Locate

SpecLocate == InitLocate /\ [][NextLocate]_vars


(* Specification of the two classification entry points called directly.   *)

InitCore ==
    /\ RoiIdle
    /\ SelIdle
    /\ LocIdle
    /\ \E load \in {"raises", "empty", "ok"} : face_cascade = InitializeCascade(load)
    /\ app_cascade \in {"None", "Loaded"}
    /\ call = NoCall
    /\ WebIdle

\* analyzer.analyze_stress(frame)
FA_AnalyzeStress ==
    \E f \in Frames :
        /\ call' = LET r == AnalyzeStress(face_cascade, f)
                   IN  [fn |-> "analyze_stress", frame |-> f, label |-> r.label,
                        debug |-> r.debug, ran |-> r.ran, escaped |-> r.escaped]
        /\ UNCHANGED <<face_cascade, app_cascade, notCore, webVars>>

\* analyze_facial_stress(frame)
App_AnalyzeFacialStress ==
    \E f \in Frames :
        /\ call' = LET r == AnalyzeFacialStress(app_cascade, f)
                   IN  [fn |-> "analyze_facial_stress", frame |-> f, label |-> r.label,
                        debug |-> None, ran |-> r.ran, escaped |-> r.escaped]
        /\ UNCHANGED <<face_cascade, app_cascade, notCore, webVars>>

NextCore == FA_AnalyzeStress \/ App_AnalyzeFacialStress

SpecCore == InitCore /\ [][NextCore]_vars


(* Specification of the web layer.                                         *)

InitWeb ==
    /\ RoiIdle
    /\ SelIdle
    /\ LocIdle
    /\ face_cascade = "Loaded"
    /\ call = NoCall
    /\ app_cascade \in {"None", "Loaded"}
    /\ stress_data = <<>>
    /\ last_debug_image = None
    /\ clock = 0
    /\ lastReq = NoRequest
    /\ response = NoResponse
    /\ typing_sessions = <<>>
    /\ ConcIdle

Serve(req, out) ==
    /\ lastReq' = req
    /\ response' = out.response
    /\ stress_data' = out.stress_data
    /\ last_debug_image' = out.last_debug_image
    /\ clock' = out.clock
    /\ UNCHANGED <<typing_sessions, concVars, coreVars, notCore>>

\* POST /analyze_frame
Post_analyze_frame ==
    /\ clock < MaxAppends
    /\ \E req \in JsonRequests :
         Serve(req, AnalyzeFrame(app_cascade, stress_data, last_debug_image, clock, req))

\* POST /analyze_frame_blob
Post_analyze_frame_blob ==
    /\ clock < MaxAppends
    /\ \E req \in BlobRequests :
         Serve(req, AnalyzeFrameBlob(app_cascade, stress_data, last_debug_image, clock, req))

NextWeb == Post_analyze_frame \/ Post_analyze_frame_blob

SpecWeb == InitWeb /\ [][NextWeb]_vars

-----------------------------------------------------------------------------
(* Specification of the session store: the two classification handlers,    *)
(* submit_results and the results page, one request at a time.             *)

\* Classification requests of the session store: the frames that classify as
\* Happy, No Face Detected and Unknown, and every rejected request.
SessionFrames ==
    {f \in WebFrames :
        /\ f.render = "ok"
        /\ f.fault = "gray" => f.det = NoTable}

SessionJsonRequests ==
    {r \in JsonRequests : r.kind = "Frame" => r.frame \in SessionFrames}

SessionBlobRequests ==
    {r \in BlobRequests : r.kind = "Frame" => r.frame \in SessionFrames}

Wpms == {40, 55}
Accuracies == {90}
TypingTimes == {60}
Seconds == {"1700000000"}

SubmitRequests ==
    [handler : {"submit_results"}, sid : SessionIds, kind : {"Data"},
     frame : {AnyFrame}, wpm : Wpms, accuracy : Accuracies, typing_time : TypingTimes]
    \cup [handler : {"submit_results"}, sid : SessionIds, kind : {"NoData", "BadWpm"},
          frame : {AnyFrame}, wpm : {0}, accuracy : {0}, typing_time : {0}]

ResultIds == {"default", "s1"} \cup Seconds

ResultsRequests ==
    [handler : {"results"}, sid : ResultIds, kind : {"Get"}, frame : {AnyFrame}]

\* POST /submit_results
Post_submit_results ==
    /\ clock < MaxAppends + 1
    /\ \E req \in SubmitRequests, second \in Seconds :
         LET out == SubmitResults(stress_data, typing_sessions, clock, req, second)
         IN  /\ lastReq' = req
             /\ response' = out.response
             /\ typing_sessions' = out.typing_sessions
             /\ clock' = out.clock
             /\ UNCHANGED <<stress_data, last_debug_image, concVars, coreVars, notCore>>

\* GET /results/<session_id>
Get_results ==
    \E req \in ResultsRequests :
        /\ lastReq' = req
        /\ response' = Results(stress_data, typing_sessions, req.sid)
        /\ UNCHANGED <<stress_data, last_debug_image, clock, typing_sessions,
                       concVars, coreVars, notCore>>

\* POST /analyze_frame
Session_analyze_frame ==
    /\ clock < MaxAppends
    /\ \E req \in SessionJsonRequests :
         Serve(req, AnalyzeFrame(app_cascade, stress_data, last_debug_image, clock, req))

\* POST /analyze_frame_blob
Session_analyze_frame_blob ==
    /\ clock < MaxAppends
    /\ \E req \in SessionBlobRequests :
         Serve(req, AnalyzeFrameBlob(app_cascade, stress_data, last_debug_image, clock, req))

NextSession ==
    \/ Session_analyze_frame
    \/ Session_analyze_frame_blob
    \/ Post_submit_results
    \/ Get_results

SpecSession == InitWeb /\ [][NextSession]_vars

-----------------------------------------------------------------------------
(* Specification of requests served concurrently.  The server of app.run   *)
(* gives every request a thread; the interpreter may switch threads        *)
(* between any two bytecodes, so each action below is one access to the    *)
(* shared dicts and lists, with the thread-local computation before it.    *)
(* A list has an identity: `lists` holds the contents of every list        *)
(* object created for stress_data, `bound` the object a key refers to, and *)
(* stress_data is kept as the contents reached through `bound`.            *)

MaxThreads == 3

Threads == 1..MaxThreads

ConcKeys == {"s1", "s2"}

ConcFrames == {f \in SessionFrames : f.fault = "none"}

Locals(handler, key, frame, pc) ==
    [handler |-> handler, key |-> key, frame |-> frame, pc |-> pc,
     level |-> Pending, ref |-> 0, idx |-> 0, seen |-> <<>>, began |-> 0,
     status |-> "none"]

ThreadStarts ==
    {Locals(h, k, f, "classify") :
        h \in {"analyze_frame", "analyze_frame_blob"}, k \in ConcKeys, f \in ConcFrames}
    \cup {Locals("submit_results", k, AnyFrame, "if_history") : k \in ConcKeys}

InitConc ==
    /\ RoiIdle
    /\ SelIdle
    /\ LocIdle
    /\ face_cascade = "Loaded"
    /\ call = NoCall
    /\ app_cascade \in {"None", "Loaded"}
    /\ stress_data = <<>>
    /\ last_debug_image = None
    /\ clock = 0
    /\ lastReq = NoRequest
    /\ response = NoResponse
    /\ typing_sessions = <<>>
    /\ threads \in [Threads -> ThreadStarts]
    /\ lists = [t \in Threads |-> <<>>]
    /\ bound = <<>>
    /\ appended = <<>>

\* What stress_data shows when every key is followed to its list.
Deref(b, ls) == [k \in DOMAIN b |-> ls[b[k]]]

AppendsTo(key) == Cardinality({i \in 1..Len(appended) : appended[i].key = key})

\* Lines 210-246 / 292-323: the detector check, the classification and the
\* debug image.
Classify(t) ==
    LET me == threads[t] IN
    /\ me.pc = "classify"
    /\ IF app_cascade = "None"
       THEN /\ threads' = [threads EXCEPT ![t].pc = "done", ![t].status = "warning",
                                           ![t].level = "Face Detection Unavailable"]
            /\ UNCHANGED last_debug_image
       ELSE LET level == AnalyzeFacialStress(app_cascade, me.frame).label
                d     == HandlerDebug(me.frame.render, level, last_debug_image)
            IN  /\ threads' = [threads EXCEPT ![t].pc = "if_absent", ![t].level = level]
                /\ last_debug_image' = d.image
    /\ UNCHANGED <<stress_data, clock, lastReq, response, typing_sessions,
                   lists, bound, appended, coreVars, notCore>>

\* if session_id not in stress_data:
IfAbsent(t) ==
    LET me == threads[t] IN
    /\ me.pc = "if_absent"
    /\ threads' = [threads EXCEPT
                      ![t].pc = IF me.key \in DOMAIN bound THEN "lookup" ELSE "create"]
    /\ UNCHANGED <<stress_data, last_debug_image, clock, lastReq, response,
                   typing_sessions, lists, bound, appended, coreVars, notCore>>

\* stress_data[session_id] = []
Create(t) ==
    LET me == threads[t] IN
    /\ me.pc = "create"
    /\ lists' = [lists EXCEPT ![t] = <<>>]
    /\ bound' = IF me.key \in DOMAIN bound THEN [bound EXCEPT ![me.key] = t]
                ELSE bound @@ (me.key :> t)
    /\ stress_data' = Deref(bound', lists')
    /\ threads' = [threads EXCEPT ![t].pc = "lookup"]
    /\ UNCHANGED <<last_debug_image, clock, lastReq, response, typing_sessions,
                   appended, coreVars, notCore>>

\* stress_data[session_id]   (the receiver of .append)
Lookup(t) ==
    LET me == threads[t] IN
    /\ me.pc = "lookup"
    /\ threads' = [threads EXCEPT ![t].pc = "append", ![t].ref = bound[me.key]]
    /\ UNCHANGED <<stress_data, last_debug_image, clock, lastReq, response,
                   typing_sessions, lists, bound, appended, coreVars, notCore>>

\* .append({'timestamp': time.time(), 'stress_level': stress_level}) and the
\* answer of lines 256-259 / 333-336
AppendSample(t) ==
    LET me == threads[t] IN
    /\ me.pc = "append"
    /\ clock' = clock + 1
    /\ lists' = [lists EXCEPT ![me.ref] =
                    Append(@, [timestamp |-> clock + 1, stress_level |-> me.level])]
    /\ stress_data' = Deref(bound, lists')
    /\ appended' = Append(appended, [key |-> me.key, stress_level |-> me.level])
    /\ threads' = [threads EXCEPT ![t].pc = "done", ![t].status = "success"]
    /\ UNCHANGED <<last_debug_image, lastReq, response, typing_sessions, bound,
                   coreVars, notCore>>

\* if session_id in stress_data and stress_data[session_id]:
IfHistory(t) ==
    LET me == threads[t] IN
    /\ me.pc = "if_history"
    /\ threads' = [threads EXCEPT
                      ![t].began = AppendsTo(me.key),
                      ![t].pc = IF me.key \in DOMAIN bound /\ lists[bound[me.key]] # <<>>
                                THEN "read" ELSE "store"]
    /\ UNCHANGED <<stress_data, last_debug_image, clock, lastReq, response,
                   typing_sessions, lists, bound, appended, coreVars, notCore>>

\* ... for item in stress_data[session_id]]   (the list the comprehension walks)
Read(t) ==
    LET me == threads[t] IN
    /\ me.pc = "read"
    /\ threads' = [threads EXCEPT ![t].pc = "iterate", ![t].ref = bound[me.key]]
    /\ UNCHANGED <<stress_data, last_debug_image, clock, lastReq, response,
                   typing_sessions, lists, bound, appended, coreVars, notCore>>

\* [item['stress_level'] for item in ...]: one more item, or the end of the list
Iterate(t) ==
    LET me == threads[t] IN
    /\ me.pc = "iterate"
    /\ threads' =
          IF me.idx < Len(lists[me.ref])
          THEN [threads EXCEPT ![t].idx = me.idx + 1,
                               ![t].seen = Append(me.seen,
                                                  lists[me.ref][me.idx + 1].stress_level)]
          ELSE [threads EXCEPT ![t].pc = "store"]
    /\ UNCHANGED <<stress_data, last_debug_image, clock, lastReq, response,
                   typing_sessions, lists, bound, appended, coreVars, notCore>>

\* Lines 136-160: the counts and their maximum over what was read, and
\* typing_sessions[session_id] = {...}
Store(t) ==
    LET me == threads[t]
        level == MostCommon(me.seen)
    IN
    /\ me.pc = "store"
    /\ clock' = clock + 1
    /\ typing_sessions' =
          PutSession(typing_sessions, me.key,
                     SessionRecord(40, 90, 60, level, clock + 1))
    /\ threads' = [threads EXCEPT ![t].pc = "done", ![t].status = "submitted",
                                   ![t].level = level]
    /\ UNCHANGED <<stress_data, last_debug_image, lastReq, response, lists, bound,
                   appended, coreVars, notCore>>

NextConc ==
    \E t \in Threads :
        \/ Classify(t)
        \/ IfAbsent(t)
        \/ Create(t)
        \/ Lookup(t)
        \/ AppendSample(t)
        \/ IfHistory(t)
        \/ Read(t)
        \/ Iterate(t)
        \/ Store(t)

SpecConc == InitConc /\ [][NextConc]_vars

-----------------------------------------------------------------------------
(* Specification of compute_metrics on drawn regions: at most MaxRows rows *)
(* of one or two uint8 pixels.                                             *)

MaxRows == 4

Widths == {1, 2}
PixelValues == {0, 100, 150}

Regions ==
    UNION {[1..h -> [1..w -> PixelValues]] : h \in 1..MaxRows, w \in Widths}

InitMetrics ==
    /\ SelIdle
    /\ LocIdle
    /\ CoreIdle
    /\ WebIdle
    /\ face_roi \in Regions
    /\ roi_metrics = NoRoiMetrics

\* metrics = self.compute_metrics(face_roi)
Compute_metrics ==
    /\ ~roi_metrics.computed
    /\ roi_metrics' = compute_metrics(face_roi)
    /\ UNCHANGED <<face_roi, selVars, locVars, coreVars, webVars>>

NextMetrics == Compute_metrics

SpecMetrics == InitMetrics /\ [][NextMetrics]_vars

-----------------------------------------------------------------------------
(* The rule table of the scorer as the specification states it: rule i     *)
(* fires on its two strict comparisons and adds its deltas (in tenths).    *)

TableFires(i, m) ==
    LET f  == m.face_mean
        em == m.eye_intensity
        mm == m.mouth_intensity
        es == m.eye_variance
        ms == m.mouth_variance
    IN  CASE i = 1 -> mm * 100 > f * 102 /\ ms * 10 > f * 2
          [] i = 2 -> mm * 100 < f * 85 /\ em * 100 < f * 90
          [] i = 3 -> es * 10 > f * 2 /\ ms * 10 > f * 2
          [] i = 4 -> es * 10 > f * 2 /\ mm * 100 < f * 90
          [] i = 5 -> es * 1000 < f * 80 /\ ms * 1000 < f * 80
          [] i = 6 -> es * 10 < f /\ mm < f
          [] i = 7 -> em * 100 < f * 80 /\ es * 1000 < f * 120
          [] i = 8 -> mm * 100 < f * 88 /\ em * 100 > f * 105

TableDelta(i, l) ==
    CASE i = 1 /\ l = "Happy"    -> 20
      [] i = 2 /\ l = "Sad"      -> 15
      [] i = 2 /\ l = "Tired"    -> 15
      [] i = 3 /\ l = "Nervous"  -> 20
      [] i = 4 /\ l = "Stressed" -> 20
      [] i = 4 /\ l = "Angry"    -> 10
      [] i = 5 /\ l = "Calm"     -> 15
      [] i = 5 /\ l = "Chill"    -> 10
      [] i = 5 /\ l = "Focused"  -> 10
      [] i = 6 /\ l = "Focused"  -> 15
      [] i = 7 /\ l = "Tired"    -> 20
      [] i = 8 /\ l = "Angry"    -> 20
      [] OTHER -> 0

RECURSIVE TableSum(_, _, _)
TableSum(i, m, l) ==
    IF i = 0 THEN 0
    ELSE TableSum(i - 1, m, l) + (IF TableFires(i, m) THEN TableDelta(i, l) ELSE 0)

\* C2: the ScoreMap the scorer returns gives every label the sum of the deltas
\* of the rules of the table whose conditions hold (a label no firing rule
\* touches stays 0, a label two firing rules touch gets both), and Happy is
\* positive whenever the Happy rule's condition holds.
C2_ScoresAreRuleSums ==
    scored =>
        /\ \A l \in Labels : scores[l] = TableSum(8, metrics, l)
        /\ (TableFires(1, metrics) => scores["Happy"] > 0)

\* A scored input on which two rules add to Focused and two add to Tired.
C2_Witness ==
    /\ scored
    /\ TableFires(5, metrics) /\ TableFires(6, metrics)
    /\ TableFires(2, metrics) /\ TableFires(7, metrics)
    /\ scores["Focused"] = 25
    /\ scores["Tired"] = 35

-----------------------------------------------------------------------------
(* The selector.                                                           *)

PriorityLabels ==
    {"Stressed", "Angry", "Nervous", "Tired", "Sad",
     "Focused", "Calm", "Chill", "Happy"}

\* The rank of a label in the order Stressed, Angry, Nervous, Tired, Sad,
\* Focused, Calm, Chill, Happy.
Rank(l) ==
    CASE l = "Stressed" -> 1 [] l = "Angry" -> 2 [] l = "Nervous" -> 3
      [] l = "Tired" -> 4 [] l = "Sad" -> 5 [] l = "Focused" -> 6
      [] l = "Calm" -> 7 [] l = "Chill" -> 8 [] l = "Happy" -> 9

MaxOf(sc) == CHOOSE x \in {sc[l] : l \in Labels} : \A l \in Labels : sc[l] <= x

TiedPriority(sc) == {l \in PriorityLabels : sc[l] = MaxOf(sc)}

FirstTiedPriority(sc) ==
    CHOOSE l \in TiedPriority(sc) : \A k \in TiedPriority(sc) : Rank(l) <= Rank(k)

\* C3: with a positive maximum, face_mean >= 50 and a priority label at the
\* maximum, select returns the first label of the priority order whose score
\* equals the maximum.
C3_PriorityOrderResolvesTies ==
    (emotion # Pending /\ MaxOf(scores) > 0 /\ face_mean >= 50
        /\ TiedPriority(scores) # {})
    => emotion = FirstTiedPriority(scores)

\* Stressed and Happy tied at a nonzero maximum on a bright face: Stressed.
C3_Witness ==
    /\ emotion = "Stressed"
    /\ face_mean >= 50
    /\ scores["Stressed"] = scores["Happy"]
    /\ scores["Happy"] = MaxOf(scores)
    /\ MaxOf(scores) > 0

\* C4: on a dark face (face_mean < 50) with a positive maximum, select returns
\* Tired if the raw Tired score is >= 1.0, else Sad if the raw Sad score is
\* >= 1.0, whichever label holds the maximum; otherwise it returns what the
\* priority resolution alone returns for that ScoreMap.
C4_DarkFaceOverride ==
    (emotion # Pending /\ MaxOf(scores) > 0 /\ face_mean < 50)
    => emotion = (IF scores["Tired"] >= 10 THEN "Tired"
                  ELSE IF scores["Sad"] >= 10 THEN "Sad"
                  ELSE SelectEmotion(scores, 50))

\* C5: a ScoreMap whose maximum is <= 0 selects Normal at every face_mean.
C5_NoRuleFiredIsNormal ==
    (emotion # Pending /\ MaxOf(scores) <= 0) => emotion = "Normal"

\* The all-zero ScoreMap selected on a dark face.
C5_Witness ==
    /\ emotion = "Normal"
    /\ MaxOf(scores) <= 0
    /\ face_mean < 50

\* The labels tied at the maximum, in the enumeration order of the ScoreMap.
TiedInEnumOrder(sc) == SelectSeq(EnumOrder, LAMBDA l : sc[l] = MaxOf(sc))

\* C6: with a positive maximum that no priority label holds, select returns the
\* first tied candidate in the enumeration order of the ScoreMap.
C6_FallbackIsFirstCandidate ==
    (emotion # Pending /\ MaxOf(scores) > 0 /\ TiedPriority(scores) = {})
    => emotion = Head(TiedInEnumOrder(scores))


-----------------------------------------------------------------------------
(* The locator.                                                            *)

StatedOrder ==
    << <<11, 3>>, <<11, 4>>, <<11, 5>>,
       <<12, 3>>, <<12, 4>>, <<12, 5>>,
       <<13, 3>>, <<13, 4>>, <<13, 5>> >>

\* The positions of StatedOrder whose configuration yields a candidate.
Yielding(tbl) ==
    {i \in 1..Len(StatedOrder) :
        ~tbl[StatedOrder[i]].raises /\ Len(tbl[StatedOrder[i]].rects) > 0}

FirstYielding(tbl) == CHOOSE i \in Yielding(tbl) : \A j \in Yielding(tbl) : i <= j

NoRaiseBefore(tbl, n) == \A j \in 1..n : ~tbl[StatedOrder[j]].raises

\* The largest-area rectangle of a list, the first one on equal areas.
FirstLargestOf(q) ==
    q[CHOOSE i \in 1..Len(q) :
        /\ \A j \in 1..Len(q) : q[j][3] * q[j][4] <= q[i][3] * q[i][4]
        /\ \A j \in 1..(i - 1) : q[j][3] * q[j][4] < q[i][3] * q[i][4]]

StopsAtFirstHit(L) ==
    (L.outcome # Pending /\ Yielding(det) # {}
        /\ NoRaiseBefore(det, FirstYielding(det)))
    => /\ L.ran = SubSeq(StatedOrder, 1, FirstYielding(det))
       /\ L.rect = FirstLargestOf(det[StatedOrder[FirstYielding(det)]].rects)

\* C1: the locator runs the configurations in the stated order, stops at the
\* first one that yields a candidate (no later configuration is run) and
\* returns the largest-area candidate of that configuration only, the first
\* one on equal areas.
C1_LocatorStopsAtFirstHit == StopsAtFirstHit(faLoc) /\ StopsAtFirstHit(appLoc)

\* The same statement of the locator loop of analyze_facial_stress alone.
C1_AppLocatorStopsAtFirstHit == StopsAtFirstHit(appLoc)


-----------------------------------------------------------------------------
(* The entry points.                                                       *)

\* C7: once loading the detector has failed, every classification call returns
\* Unknown and never invokes the detector's detection routine.
C7_UnavailableNeverDetects ==
    /\ (call.fn = "analyze_stress" /\ face_cascade # "Loaded")
        => (call.label = "Unknown" /\ call.ran = <<>>)
    /\ (call.fn = "analyze_facial_stress" /\ app_cascade # "Loaded")
        => (call.label = "Unknown" /\ call.ran = <<>>)

\* The detector ran on the frame of the call and found nothing anywhere.
RanAndFoundNothing ==
    /\ call.fn # "none"
    /\ call.frame.kind = "Image"
    /\ call.frame.fault = "none"
    /\ \A c \in DOMAIN call.frame.det :
         ~call.frame.det[c].raises /\ Len(call.frame.det[c].rects) = 0
    /\ (call.fn = "analyze_stress" => face_cascade = "Loaded")
    /\ (call.fn = "analyze_facial_stress" => app_cascade = "Loaded")

\* C8: when the detector is available, runs and finds no face in any
\* configuration, the returned label is not the Unknown label of an unavailable
\* detector or a failed analysis.
C8_NoFaceIsNotUnknown ==
    RanAndFoundNothing => call.label # "Unknown"

\* The labels of the defined set, and the label of the NoFaceFound outcome.
DefinedLabels ==
    {"Happy", "Sad", "Tired", "Angry", "Nervous", "Stressed", "Calm", "Chill",
     "Focused", "Normal", "Unknown"}

NoFaceFound == "No Face Detected"

\* C9: a classification call never lets an exception escape and returns a label
\* of the defined set (or NoFaceFound); on a null or empty frame and on any
\* failure inside the analysis it returns Unknown or NoFaceFound, with no debug
\* image.
C9_NeverThrowsAlwaysDefinedLabel ==
    call.fn # "none" =>
        /\ ~call.escaped
        /\ call.label \in DefinedLabels \cup {NoFaceFound}
        /\ (call.frame.kind # "Image" \/ call.frame.fault # "none")
            => (call.label \in {"Unknown", NoFaceFound} /\ call.debug = None)

\* The same statement of FaceAnalyzer.analyze_stress alone.
C9_AnalyzeStressNeverThrows ==
    call.fn = "analyze_stress" =>
        /\ ~call.escaped
        /\ call.label \in DefinedLabels
        /\ (call.frame.kind # "Image" \/ call.frame.fault # "none")
            => (call.label = "Unknown" /\ call.debug = None)


-----------------------------------------------------------------------------
(* The debug renderer.                                                     *)

RenderedOk(f) == [f EXCEPT !.render = "ok"]

RenderFailed ==
    /\ lastReq.kind = "Frame"
    /\ app_cascade = "Loaded"
    /\ lastReq.frame.render # "ok"

\* C10: a failure of the debug renderer (drawing raises, or the encoder reports
\* failure) leaves the primary result as it is: the request is answered with
\* status success and the label the classification returns when rendering
\* succeeds, that label is the last sample of the request's session, and
\* FaceAnalyzer.analyze_stress returns the same label with no debug image.
C10_RenderFailureKeepsLabel ==
    RenderFailed =>
        LET f     == lastReq.frame
            level == AnalyzeFacialStress(app_cascade, RenderedOk(f)).label
            key   == IF lastReq.sid = "absent" THEN "default" ELSE lastReq.sid
        IN  /\ response.code = 200
            /\ response.status = "success"
            /\ response.stress_level = level
            /\ key \in DOMAIN stress_data
            /\ stress_data[key] # <<>>
            /\ stress_data[key][Len(stress_data[key])].stress_level = level
            /\ AnalyzeStress(face_cascade, f).label
                 = AnalyzeStress(face_cascade, RenderedOk(f)).label
            /\ AnalyzeStress(face_cascade, f).debug = None

\* A request whose frame shows a face and whose drawing raised was answered
\* Happy with status success.
C10_Witness ==
    /\ RenderFailed
    /\ lastReq.frame.render = "raises"
    /\ response.status = "success"
    /\ response.stress_level = "Happy"
    /\ "default" \in DOMAIN stress_data


-----------------------------------------------------------------------------
(* The session summary.                                                    *)

Occurrences(s, l) == Cardinality({i \in 1..Len(s) : s[i] = l})

FirstOccurrence(s, l) ==
    CHOOSE i \in 1..Len(s) : s[i] = l /\ \A j \in 1..(i - 1) : s[j] # l

\* l is the most frequent label of s, the earliest-seen among the most frequent
IsSummaryOf(l, s) ==
    /\ l \in SeqToSet(s)
    /\ \A m \in SeqToSet(s) :
         /\ Occurrences(s, m) <= Occurrences(s, l)
         /\ Occurrences(s, m) = Occurrences(s, l)
              => FirstOccurrence(s, l) <= FirstOccurrence(s, m)

Submitted ==
    /\ lastReq.handler = "submit_results"
    /\ response.code = 200

SubmittedHistory == StressLevels(stress_data[response.session_id])

SubmittedNonEmpty ==
    /\ Submitted
    /\ response.session_id \in DOMAIN stress_data
    /\ stress_data[response.session_id] # <<>>

\* C11: when a session with a non-empty sequence of appended labels is
\* submitted, the summary answered and stored is a label with the largest
\* number of occurrences in the sequence, and among the labels with that
\* number the one that occurs first.
C11_SummaryIsMostFrequentFirstSeen ==
    SubmittedNonEmpty =>
        /\ IsSummaryOf(response.stress_level, SubmittedHistory)
        /\ typing_sessions[response.session_id].stress_level = response.stress_level

\* A session whose history is two different labels, the first of them not
\* Happy, was submitted: the tie is resolved for the first.
C11_Witness ==
    /\ SubmittedNonEmpty
    /\ Len(SubmittedHistory) = 2
    /\ SubmittedHistory[1] # SubmittedHistory[2]
    /\ SubmittedHistory[1] # "Happy"
    /\ response.stress_level = SubmittedHistory[1]

\* C12: once submit_results has stored a summary for a session key, no later
\* request changes the summary stored for that key.
C12_StoredSummaryNeverChanges ==
    [][\A k \in DOMAIN typing_sessions :
          /\ k \in DOMAIN typing_sessions'
          /\ typing_sessions'[k].stress_level = typing_sessions[k].stress_level]_vars

-----------------------------------------------------------------------------
(* The results page.                                                       *)

IsSubmitOf(req, resp, id) ==
    /\ req.handler = "submit_results"
    /\ resp.code = 200
    /\ resp.session_id = id

\* C17: the results page of a session id answers 404 'Session not found' until
\* a submit_results with that id has completed; a completed submit makes it
\* answer 200 with the wpm and accuracy of that submit; no other request
\* (classification requests in particular) changes whether the page is
\* available or the wpm and accuracy it shows.
C17_ResultsAvailableIffSubmitted ==
    /\ \A id \in ResultIds :
         /\ Results(stress_data, typing_sessions, id).code = 404
         /\ Results(stress_data, typing_sessions, id).error = "Session not found"
    /\ [][\A id \in ResultIds :
            LET before == Results(stress_data, typing_sessions, id)
                after  == Results(stress_data', typing_sessions', id)
            IN  IF IsSubmitOf(lastReq', response', id)
                THEN /\ after.code = 200
                     /\ after.session.wpm = lastReq'.wpm
                     /\ after.session.accuracy = lastReq'.accuracy
                ELSE /\ after.code = before.code
                     /\ before.code = 404 => after.error = "Session not found"
                     /\ before.code = 200 =>
                          /\ after.session.wpm = before.session.wpm
                          /\ after.session.accuracy = before.session.accuracy
                     /\ lastReq'.handler = "results" /\ lastReq'.sid = id
                          => response' = after]_vars

\* The page of a session submitted twice, with different wpm, was fetched and
\* shows the second submit; the page of a session that only has samples was
\* not found.
C17_Witness ==
    /\ lastReq.handler = "results"
    /\ response.code = 200
    /\ response.session.wpm = 55
    /\ response.session.timestamp >= 2
    /\ \E k \in DOMAIN stress_data : k \notin DOMAIN typing_sessions

-----------------------------------------------------------------------------
(* The effect of a classification request on the session store.            *)

ByClassifier(req) == req.handler \in {"analyze_frame", "analyze_frame_blob"}

\* C20: a classification request answered with status success appends exactly
\* one sample carrying the answered label at the end of the history of its
\* session key and leaves the earlier samples of that key, every other key's
\* history and every finalized session record as they were; a request
\* answered otherwise (an error, or the Face Detection Unavailable warning)
\* leaves every history and every finalized record as it was.
C20_ClassificationFrameEffect ==
    [][ByClassifier(lastReq') =>
         /\ typing_sessions' = typing_sessions
         /\ IF response'.status = "success"
            THEN LET key == SessionIdOf(lastReq')
                     old == IF key \in DOMAIN stress_data THEN stress_data[key] ELSE <<>>
                 IN  /\ DOMAIN stress_data' = DOMAIN stress_data \cup {key}
                     /\ Len(stress_data'[key]) = Len(old) + 1
                     /\ SubSeq(stress_data'[key], 1, Len(old)) = old
                     /\ stress_data'[key][Len(old) + 1].stress_level
                          = response'.stress_level
                     /\ \A k \in DOMAIN stress_data :
                          k # key => stress_data'[k] = stress_data[k]
            ELSE stress_data' = stress_data]_vars

\* A successful request appended to a history that already had a sample,
\* while a finalized record existed.
C20_Witness ==
    /\ ByClassifier(lastReq)
    /\ response.status = "success"
    /\ Len(stress_data[SessionIdOf(lastReq)]) >= 2
    /\ DOMAIN typing_sessions # {}

-----------------------------------------------------------------------------
(* Requests served concurrently.                                           *)

AllDone == \A t \in Threads : threads[t].pc = "done"

HistoryOf(key) == IF key \in DOMAIN stress_data THEN stress_data[key] ELSE <<>>

Succeeded(key) ==
    {t \in Threads :
        /\ threads[t].handler \in {"analyze_frame", "analyze_frame_blob"}
        /\ threads[t].key = key
        /\ threads[t].status = "success"}

\* C13: when the classification requests for a session key have completed
\* with status success, in whatever interleaving of their steps, the history
\* of the key holds exactly one sample for each of them.
C13_NoAppendIsLost ==
    AllDone =>
        \A key \in ConcKeys : Len(HistoryOf(key)) = Cardinality(Succeeded(key))

AppendOrder(key) ==
    LET at == {i \in 1..Len(appended) : appended[i].key = key}
        nth(n) == CHOOSE i \in at : Cardinality({j \in at : j <= i}) = n
    IN  [n \in 1..Cardinality(at) |-> appended[nth(n)].stress_level]

SummaryOf(p, l) == IF p = <<>> THEN l = "Normal" ELSE IsSummaryOf(l, p)

\* C14: the label a summarization stores is the most-frequent/first-seen
\* summary of a prefix of the order in which the samples of its session were
\* appended, and that prefix holds every sample appended before the
\* summarization began.
C14_SummaryOfConsistentSnapshot ==
    \A t \in Threads :
        (threads[t].handler = "submit_results" /\ threads[t].pc = "done") =>
            LET order == AppendOrder(threads[t].key)
            IN  \E n \in threads[t].began..Len(order) :
                    SummaryOf(SubSeq(order, 1, n), threads[t].level)

-----------------------------------------------------------------------------
(* The region metrics.                                                     *)

Height == Len(face_roi)

Defined(stat) == ~stat.nan /\ stat.den > 0

NonNegative(stat) == Defined(stat) /\ stat.num >= 0

IsZero(stat) == Defined(stat) /\ stat.num = 0

Floor10(h, tenths) == CHOOSE q \in 0..h : 10 * q <= tenths * h /\ tenths * h < 10 * (q + 1)

EyeRows == {y \in 0..(Height - 1) : Floor10(Height, 2) <= y /\ y < Floor10(Height, 5)}

MouthRows == {y \in 0..(Height - 1) : Floor10(Height, 6) <= y /\ y < Floor10(Height, 8)}

\* C15: for a region of at least one row and one column the five values are
\* defined and not negative; the row bounds used are floor(0.2H) <=
\* min(floor(0.5H), H) and floor(0.6H) <= min(floor(0.8H), H), none above H;
\* and a band without rows has mean and standard deviation exactly 0.
C15_MetricsDefinedAndBounded ==
    roi_metrics.computed =>
        LET b == RowBounds(Height)
        IN  /\ NonNegative(roi_metrics.eye_intensity)
            /\ NonNegative(roi_metrics.mouth_intensity)
            /\ NonNegative(roi_metrics.eye_variance)
            /\ NonNegative(roi_metrics.mouth_variance)
            /\ NonNegative(roi_metrics.face_mean)
            /\ b.eye_y1 = Floor10(Height, 2)
            /\ b.eye_y2 = Min(Floor10(Height, 5), Height)
            /\ b.mouth_y1 = Floor10(Height, 6)
            /\ b.mouth_y2 = Min(Floor10(Height, 8), Height)
            /\ 0 <= b.eye_y1 /\ b.eye_y1 <= b.eye_y2 /\ b.eye_y2 <= Height
            /\ 0 <= b.mouth_y1 /\ b.mouth_y1 <= b.mouth_y2 /\ b.mouth_y2 <= Height
            /\ EyeRows = {} =>
                 /\ IsZero(roi_metrics.eye_intensity)
                 /\ IsZero(roi_metrics.eye_variance)
            /\ MouthRows = {} =>
                 /\ IsZero(roi_metrics.mouth_intensity)
                 /\ IsZero(roi_metrics.mouth_variance)

\* The metrics of a region of one bright row: both bands are empty.
C15_Witness ==
    /\ roi_metrics.computed
    /\ Height = 1
    /\ EyeRows = {} /\ MouthRows = {}
    /\ roi_metrics.face_mean.num > 0

\* The region with every pixel outside the rows of `keep` set to v.
Repaint(roi, keep, v) ==
    [y \in 1..Len(roi) |->
        IF (y - 1) \in keep THEN roi[y] ELSE [x \in 1..Len(roi[y]) |-> v]]

AllPixels(rows, a) ==
    \A y \in rows : \A x \in 1..Len(face_roi[y + 1]) : face_roi[y + 1][x] = a

IsExactly(stat, a) == Defined(stat) /\ stat.num = a * stat.den

\* C16: the eye statistics are those of rows [floor(0.2H), floor(0.5H)) and
\* the mouth statistics those of rows [floor(0.6H), floor(0.8H)), over the
\* full width: setting every pixel outside the two bands to any value
\* changes none of the four, and when every pixel of the eye band is a and
\* every pixel of the mouth band is b (bands with at least one row), the
\* means are a and b and both standard deviations are 0.
C16_BandStatisticsUseOnlyTheBand ==
    roi_metrics.computed =>
        /\ \A v \in PixelValues :
             LET other == compute_metrics(Repaint(face_roi, EyeRows \cup MouthRows, v))
             IN  /\ other.eye_intensity = roi_metrics.eye_intensity
                 /\ other.eye_variance = roi_metrics.eye_variance
                 /\ other.mouth_intensity = roi_metrics.mouth_intensity
                 /\ other.mouth_variance = roi_metrics.mouth_variance
        /\ \A a, b \in PixelValues :
             (/\ EyeRows # {} /\ AllPixels(EyeRows, a)
              /\ MouthRows # {} /\ AllPixels(MouthRows, b))
             => /\ IsExactly(roi_metrics.eye_intensity, a)
                /\ IsExactly(roi_metrics.mouth_intensity, b)
                /\ IsZero(roi_metrics.eye_variance)
                /\ IsZero(roi_metrics.mouth_variance)

\* Four rows of two pixels: the eye band (rows 0 and 1) all 100, the mouth
\* band (row 2) all 150, the row below neither.
C16_Witness ==
    /\ roi_metrics.computed
    /\ Height = 4
    /\ Len(face_roi[1]) = 2
    /\ EyeRows = {0, 1} /\ AllPixels(EyeRows, 100)
    /\ MouthRows = {2} /\ AllPixels(MouthRows, 150)
    /\ face_roi[4] = <<0, 150>>
    /\ IsExactly(roi_metrics.eye_intensity, 100)

-----------------------------------------------------------------------------
(* The scorer followed by the selector.                                    *)

\* C18: in a ScoreMap the scorer produces, Sad > 0 implies Tired >= Sad,
\* Chill > 0 implies Calm > Chill, and Normal and Unknown are 0; so whenever
\* something scored, a priority label holds the maximum (the selector's
\* fallback past the priority loop is not taken), and neither the selector
\* of FaceAnalyzer nor the inline one of app.py ever answers Sad or Chill.
C18_SadAndChillUnreachable ==
    /\ scored =>
         /\ scores = ComputeEmotionScores(metrics)
         /\ scores["Sad"] > 0 => scores["Tired"] >= scores["Sad"]
         /\ scores["Chill"] > 0 => scores["Calm"] > scores["Chill"]
         /\ scores["Normal"] = 0 /\ scores["Unknown"] = 0
         /\ BestScore(scores) > 0 => FirstIn(Priority, Candidates(scores)) # NoValue
    /\ emotion \notin {"Sad", "Chill"}
    /\ appLabel \notin {"Sad", "Chill"}

\* A dark face on which the Sad/Tired rule fired and nothing scored higher:
\* both selectors answered Tired.
C18_Witness ==
    /\ scored
    /\ scores["Sad"] = 15
    /\ BestScore(scores) = 15
    /\ DarkFace(face_mean)
    /\ emotion = "Tired"
    /\ appLabel = "Tired"

\* C19: on the same five metrics the inline scorer and selector of
\* analyze_facial_stress and FaceAnalyzer._compute_emotion_scores followed by
\* FaceAnalyzer._select_emotion choose the same emotion.
C19_InlineAndAnalyzerAgree ==
    /\ scored =>
         \A l \in Labels \ {"Normal", "Unknown"} :
             \E k \in SeqToSet(AppKeys) :
                 Capitalize(k) = l /\ AppScores(metrics)[k] = scores[l]
    /\ (emotion # Pending /\ appLabel # Pending) => appLabel = emotion

\* Both chose Tired by the dark-face override although another label held
\* the maximum.
C19_Witness ==
    /\ emotion # Pending
    /\ appLabel = emotion
    /\ DarkFace(face_mean)
    /\ emotion = "Tired"
    /\ scores["Tired"] < BestScore(scores)
====
